---------------------------- MODULE Spec2Model ----------------------------
(***************************************************************************)
(* A model of the two tutorial notebooks of the repository:                *)
(*   - "Mixing TensorFlow models with GPflow": a kernel that feeds a       *)
(*     convolutional network into a base kernel (KernelWithConvNN), the    *)
(*     Kuu / Kuf multiple-dispatch registrations for inducing points that  *)
(*     live in the network's output space, the SVGP model built from them, *)
(*     the Adam training loop and the accuracy read-out;                   *)
(*   - "Bayesian GPLVM".                                                   *)
(*                                                                         *)
(* Numbers are integers: a pixel, a feature and a kernel value are small   *)
(* naturals, exp(-r) is a decreasing table (ExpNeg).  A tensor carries the *)
(* number of times the network has been applied to it ("space": 0 is the   *)
(* raw image space, 1 the network's output space), and every function      *)
(* returns, with its value, the calls it made to the network and to the    *)
(* base kernel, in order.                                                  *)
(***************************************************************************)
EXTENDS Integers, Sequences, FiniteSets, TLC

\* ------------------------------------------------------------------ bounds
\* Pixels are 0..MaxPixel (the notebook scales them to [0, 1]).
MaxPixel == 1
\* The Dense layer's weight ranges over 0..MaxWeight.
MaxWeight == 2
\* Kernel variance and lengthscale range over 1..MaxKernelParam.
MaxKernelParam == 2
\* Jitter values handed to Kuu are 0..MaxJitter, or none at all.
MaxJitter == 1
\* The dataset holds batch_size..MaxData samples.
MaxData == 3
\* ci_niter(100) is any count in 0..MaxIter.
MaxIter == 2
\* The largest dataset, and the most batches drawn, of the dataset on its own.
MaxSamples == 5
MaxDraws == 4

\* ---------------------------------------------------------- program constants
\* jitter=None, the default of the registered Kuu.
NoJitter == -1
\* num_mnist_classes = 10
num_mnist_classes == 10
\* batch_size = 32, scaled down: the model's batches hold two samples.
batch_size == 2
\* next(iter(dataset.batch(32))): 32 batches make the subset, scaled down to one.
subset_batches == 1
\* num_inducing_points = 100, scaled down to two.
num_inducing_points == 2

\* ----------------------------------------------------------------- tensors
Max(a, b) == IF a >= b THEN a ELSE b
Min(a, b) == IF a <= b THEN a ELSE b

\* Python's None where a tensor is optional (b_input).
None == [space |-> -1, rows |-> <<>>]

Tensor(space, rows) == [space |-> space, rows |-> rows]

Pixels == 0..MaxPixel
\* A flattened image (reshape to [-1, image_size]): two pixels.
RawRows == {<<p, q>> : p \in Pixels, q \in Pixels}

\* Batches of 1..n rows over the row set R.
RowSeqs(R, n) == UNION {[1..k -> R] : k \in 1..n}

\* Raw image batches handed to the kernel directly: one or two rows, space 0.
RawBatches == {Tensor(0, rows) : rows \in RowSeqs(RawRows, 2)}

\* One record of the call log: a call of the network or of the base kernel
\* with its arguments, or a covariance resolved to an implementation.
Call(fn, args) == [fn |-> fn, args |-> args, impl |-> ""]
Resolved(fn, impl) == [fn |-> fn, args |-> <<>>, impl |-> impl]

\* What a function returns: whether it returned normally, its value (a matrix,
\* a vector or a tensor) and the calls it made.
Effect(ok, value, calls) == [ok |-> ok, value |-> value, calls |-> calls]

Raised == <<>>

\* ------------------------------------------------------ the network (cnn)
relu(x) == Max(x, 0)

\* tf.keras.Sequential([... Dense(output_dim, activation="relu"), ...]): a
\* deterministic function of the weights and the batch, applied row by row,
\* ending in a relu.
cnn_rows(weights, rows) ==
    [r \in 1..Len(rows) |->
        [c \in 1..Len(rows[r]) |-> relu(weights.w * rows[r][c])]]

\* self.cnn(x): the batch moves one space up.
cnn(weights, x) == Tensor(x.space + 1, cnn_rows(weights, x.rows))

cnn_call(x) == Call("cnn", <<x>>)

\* ------------------------------------------------- base kernels (library)
Dot(x, y) ==
    LET S[c \in 0..Len(x)] == IF c = 0 THEN 0 ELSE S[c - 1] + x[c] * y[c]
    IN  S[Len(x)]

SqDist(x, y) ==
    LET S[c \in 0..Len(x)] ==
            IF c = 0 THEN 0 ELSE S[c - 1] + (x[c] - y[c]) * (x[c] - y[c])
    IN  S[Len(x)]

\* exp(-r) on the integer grid, scaled by 4: 1 at 0, decreasing, 0 far away.
ExpNeg(r) == IF r = 0 THEN 4 ELSE IF r = 1 THEN 2 ELSE IF r = 2 THEN 1 ELSE 0

\* One entry k(x, y) of the base kernel.
BaseEntry(bk, x, y) ==
    IF bk.class = "SquaredExponential"
    THEN bk.variance * ExpNeg(SqDist(x, y) \div (bk.lengthscales * bk.lengthscales))
    ELSE bk.variance * Dot(x, y)

\* base_kernel.K(X, X2): the full cross-covariance; X2 = None means X2 = X.
BaseKernel_K(bk, X, X2) ==
    LET Y == IF X2 = None THEN X ELSE X2
    IN  [r \in 1..Len(X.rows) |->
            [c \in 1..Len(Y.rows) |-> BaseEntry(bk, X.rows[r], Y.rows[c])]]

\* base_kernel.K_diag(X): the variances only.  SquaredExponential fills the
\* vector with its variance; Linear sums the squares.
BaseKernel_K_diag(bk, X) ==
    [r \in 1..Len(X.rows) |->
        IF bk.class = "SquaredExponential"
        THEN bk.variance * ExpNeg(0)
        ELSE bk.variance * Dot(X.rows[r], X.rows[r])]

baseK_call(X, X2) == Call("base_kernel.K", <<X, X2>>)
baseKdiag_call(X) == Call("base_kernel.K_diag", <<X>>)

\* The diagonal of a square matrix.
Diag(M) == [r \in 1..Len(M) |-> M[r][r]]

\* ------------------------------------------------------- KernelWithConvNN
\* A kernel object: the network's weights and the base kernel it owns.
KernelWithConvNN(weights, base_kernel) ==
    [class |-> "KernelWithConvNN", cnn |-> weights, base_kernel |-> base_kernel]

\* K with the transform of the second batch left out.
KernelWithConvNN_K_rawB(kernel, a_input, b_input) ==
    LET transformed_a == cnn(kernel.cnn, a_input)
    IN  Effect(TRUE,
               BaseKernel_K(kernel.base_kernel, transformed_a, b_input),
               <<cnn_call(a_input), baseK_call(transformed_a, b_input)>>)

\* K taking the diagonal-only mode for an absent second batch.
KernelWithConvNN_K_diagmode(kernel, a_input, b_input) ==
    LET transformed_a == cnn(kernel.cnn, a_input)
        transformed_b == IF b_input # None THEN cnn(kernel.cnn, b_input) ELSE b_input
    IN  IF b_input = None
        THEN Effect(TRUE,
                    BaseKernel_K_diag(kernel.base_kernel, transformed_a),
                    <<cnn_call(a_input), baseKdiag_call(transformed_a)>>)
        ELSE Effect(TRUE,
                    BaseKernel_K(kernel.base_kernel, transformed_a, transformed_b),
                    <<cnn_call(a_input), cnn_call(b_input),
                      baseK_call(transformed_a, transformed_b)>>)

\* K with the transform of the first batch left out.
KernelWithConvNN_K_rawA(kernel, a_input, b_input) ==
    LET transformed_b == IF b_input # None THEN cnn(kernel.cnn, b_input) ELSE b_input
    IN  Effect(TRUE,
               BaseKernel_K(kernel.base_kernel, a_input, transformed_b),
               (IF b_input # None THEN <<cnn_call(b_input)>> ELSE <<>>)
                 \o <<baseK_call(a_input, transformed_b)>>)

\* K built from the variances alone: the diagonal of the base kernel on the
\* transformed first batch, and zero off the diagonal.
KernelWithConvNN_K_variances_only(kernel, a_input, b_input) ==
    LET transformed_a == cnn(kernel.cnn, a_input)
        d == BaseKernel_K_diag(kernel.base_kernel, transformed_a)
    IN  Effect(TRUE,
               [r \in 1..Len(d) |-> [c \in 1..Len(d) |-> IF r = c THEN d[r] ELSE 0]],
               <<cnn_call(a_input), baseKdiag_call(transformed_a)>>)

\* KernelWithConvNN.K(a_input, b_input=None):
\*     transformed_a = self.cnn(a_input)
\*     transformed_b = self.cnn(b_input) if b_input is not None else b_input
\*     return self.base_kernel.K(transformed_a, transformed_b)
KernelWithConvNN_K(kernel, a_input, b_input) ==
    LET transformed_a == cnn(kernel.cnn, a_input)
        transformed_b == IF b_input # None THEN cnn(kernel.cnn, b_input) ELSE b_input
    IN  Effect(TRUE,
               BaseKernel_K(kernel.base_kernel, transformed_a, transformed_b),
               <<cnn_call(a_input)>>
                 \o (IF b_input # None THEN <<cnn_call(b_input)>> ELSE <<>>)
                 \o <<baseK_call(transformed_a, transformed_b)>>)

\* K_diag with the transform left out.
KernelWithConvNN_K_diag_raw(kernel, a_input) ==
    Effect(TRUE, BaseKernel_K_diag(kernel.base_kernel, a_input),
           <<baseKdiag_call(a_input)>>)

\* KernelWithConvNN.K_diag(a_input):
\*     transformed_a = self.cnn(a_input)
\*     return self.base_kernel.K_diag(transformed_a)
KernelWithConvNN_K_diag(kernel, a_input) ==
    LET transformed_a == cnn(kernel.cnn, a_input)
    IN  Effect(TRUE,
               BaseKernel_K_diag(kernel.base_kernel, transformed_a),
               <<cnn_call(a_input), baseKdiag_call(transformed_a)>>)

\* kernel(X, X2) on any kernel object (Kernel.__call__ with full_cov=True):
\* the object's own K.
Kernel_call(kernel, X, X2) ==
    IF kernel.class = "KernelWithConvNN"
    THEN KernelWithConvNN_K(kernel, X, X2)
    ELSE Effect(TRUE, BaseKernel_K(kernel, X, X2), <<baseK_call(X, X2)>>)

\* kernel(X, full_cov=False): the object's own K_diag.
Kernel_call_diag(kernel, X) ==
    IF kernel.class = "KernelWithConvNN"
    THEN KernelWithConvNN_K_diag(kernel, X)
    ELSE Effect(TRUE, BaseKernel_K_diag(kernel, X), <<baseKdiag_call(X)>>)

\* ------------------------------------------------------ multiple dispatch
\* class KernelSpaceInducingPoints(gpflow.inducing_variables.InducingPoints)
\* class KernelWithConvNN(gpflow.kernels.Kernel), and the library's classes.
Parent ==
    [KernelSpaceInducingPoints |-> "InducingPoints",
     InducingPoints |-> "InducingVariables",
     InducingVariables |-> "object",
     KernelWithConvNN |-> "Kernel",
     SquaredExponential |-> "Kernel",
     Linear |-> "Kernel",
     Kernel |-> "object",
     object |-> "object"]

\* The classes c inherits from, itself included.
Ancestors(c) == {c, Parent[c], Parent[Parent[c]], Parent[Parent[Parent[c]]]}

IsSubclass(c, d) == d \in Ancestors(c)

\* What the library registers: the base case for inducing points and any kernel.
LibraryRegistry ==
    {[fn |-> "Kuu", sig |-> <<"InducingPoints", "Kernel">>,
      impl |-> "Kuu_kernel_inducingpoints"],
     [fn |-> "Kuf", sig |-> <<"InducingPoints", "Kernel">>,
      impl |-> "Kuf_kernel_inducingpoints"]}

\* The notebook's registrations with the Kuf one missing.
NotebookRegistry_noKuf ==
    {[fn |-> "Kuu", sig |-> <<"KernelSpaceInducingPoints", "KernelWithConvNN">>,
      impl |-> "Kuu"]}

\* The notebook's registrations with the Kuu one missing.
NotebookRegistry_noKuu ==
    {[fn |-> "Kuf", sig |-> <<"KernelSpaceInducingPoints", "KernelWithConvNN">>,
      impl |-> "Kuf"]}

\* The notebook's registrations made for every kind of inducing points.
NotebookRegistry_plain_inducing_points ==
    {[fn |-> "Kuu", sig |-> <<"InducingPoints", "KernelWithConvNN">>,
      impl |-> "Kuu"],
     [fn |-> "Kuf", sig |-> <<"InducingPoints", "KernelWithConvNN">>,
      impl |-> "Kuf"]}

\* @gpflow.covariances.Kuu.register(KernelSpaceInducingPoints, KernelWithConvNN)
\* @gpflow.covariances.Kuf.register(KernelSpaceInducingPoints, KernelWithConvNN, object)
NotebookRegistry ==
    {[fn |-> "Kuu", sig |-> <<"KernelSpaceInducingPoints", "KernelWithConvNN">>,
      impl |-> "Kuu"],
     [fn |-> "Kuf", sig |-> <<"KernelSpaceInducingPoints", "KernelWithConvNN">>,
      impl |-> "Kuf"]}

Registry == LibraryRegistry \cup NotebookRegistry

\* Dispatcher.dispatch(*types): among the registered signatures the argument
\* types inherit from, the most specific one; none when nothing matches.
dispatch(fn, types) ==
    LET matching == {e \in Registry :
                        /\ e.fn = fn
                        /\ IsSubclass(types[1], e.sig[1])
                        /\ IsSubclass(types[2], e.sig[2])}
        best == {e \in matching :
                    \A f \in matching : /\ IsSubclass(e.sig[1], f.sig[1])
                                        /\ IsSubclass(e.sig[2], f.sig[2])}
    IN  IF best = {} THEN "NotImplemented" ELSE (CHOOSE e \in best : TRUE).impl

\* ------------------------------------------------- covariances (library)
InducingPoints(class, Z) == [class |-> class, Z |-> Z]

AddJitter(M, jitter) ==
    [r \in 1..Len(M) |->
        [c \in 1..Len(M[r]) |-> M[r][c] + (IF r = c THEN jitter ELSE 0)]]

\* The library's base case, Kuu(InducingPoints, Kernel, *, jitter=0.0):
\*     Kzz = kernel(inducing_variable.Z);  Kzz += jitter * eye
\* (jitter=None makes the product raise).
Kuu_kernel_inducingpoints(inducing_variable, kernel, jitter) ==
    LET Kzz == Kernel_call(kernel, inducing_variable.Z, None)
    IN  IF jitter = NoJitter
        THEN Effect(FALSE, Raised, Kzz.calls)
        ELSE Effect(TRUE, AddJitter(Kzz.value, jitter), Kzz.calls)

\* The library's base case, Kuf(InducingPoints, Kernel, Xnew):
\*     return kernel(inducing_variable.Z, Xnew)
Kuf_kernel_inducingpoints(inducing_variable, kernel, Xnew) ==
    Kernel_call(kernel, inducing_variable.Z, Xnew)

\* ------------------------------------------- the notebook's Kuu and Kuf
\* Kuu handing the whole kernel, not its base kernel, to the base case.
Kuu_whole_kernel(inducing_variable, kernel, jitter) ==
    Kuu_kernel_inducingpoints(inducing_variable, kernel, jitter)

\* def Kuu(inducing_variable, kernel, jitter=None):
\*     func = gpflow.covariances.Kuu.dispatch(InducingPoints, Kernel)
\*     return func(inducing_variable, kernel.base_kernel, jitter=jitter)
Kuu(inducing_variable, kernel, jitter) ==
    LET func == dispatch("Kuu", <<"InducingPoints", "Kernel">>)
    IN  IF func = "Kuu_kernel_inducingpoints"
        THEN Kuu_kernel_inducingpoints(inducing_variable, kernel.base_kernel, jitter)
        ELSE Effect(FALSE, Raised, <<>>)

\* Kuf transforming the inducing points as well.
Kuf_transform_Z(inducing_variable, kernel, a_input) ==
    Kernel_call(kernel, inducing_variable.Z, a_input)

\* def Kuf(inducing_variable, kernel, a_input):
\*     return kernel.base_kernel(inducing_variable.Z, kernel.cnn(a_input))
Kuf(inducing_variable, kernel, a_input) ==
    LET transformed_a == cnn(kernel.cnn, a_input)
        Kzx == Kernel_call(kernel.base_kernel, inducing_variable.Z, transformed_a)
    IN  Effect(Kzx.ok, Kzx.value, <<cnn_call(a_input)>> \o Kzx.calls)

\* gpflow.covariances.Kuu(inducing_variable, kernel, jitter=...): the call
\* through the dispatcher, resolved on the arguments' classes.
covariances_Kuu(inducing_variable, kernel, jitter) ==
    LET impl == dispatch("Kuu", <<inducing_variable.class, kernel.class>>)
        e == IF impl = "Kuu" THEN Kuu(inducing_variable, kernel, jitter)
             ELSE IF impl = "Kuu_kernel_inducingpoints"
             THEN Kuu_kernel_inducingpoints(inducing_variable, kernel, jitter)
             ELSE Effect(FALSE, Raised, <<>>)
    IN  Effect(e.ok, e.value, <<Resolved("covariances.Kuu", impl)>> \o e.calls)

\* gpflow.covariances.Kuf(inducing_variable, kernel, Xnew), likewise.
covariances_Kuf(inducing_variable, kernel, Xnew) ==
    LET impl == dispatch("Kuf", <<inducing_variable.class, kernel.class>>)
        e == IF impl = "Kuf" THEN Kuf(inducing_variable, kernel, Xnew)
             ELSE IF impl = "Kuf_kernel_inducingpoints"
             THEN Kuf_kernel_inducingpoints(inducing_variable, kernel, Xnew)
             ELSE Effect(FALSE, Raised, <<>>)
    IN  Effect(e.ok, e.value, <<Resolved("covariances.Kuf", impl)>> \o e.calls)

\* ---------------------------------------------------------- the dataset
Range(f) == {f[x] : x \in DOMAIN f}

\* Sample k of the dataset after map_fn: its flattened image and its label.
Image(k) == <<(k \div 2) % (MaxPixel + 1), k % (MaxPixel + 1)>>
Label(k) == k % num_mnist_classes

\* The images of a sequence of samples, as a raw batch.
Images(samples) == Tensor(0, [r \in 1..Len(samples) |-> Image(samples[r])])

\* iter(dataset): nothing is drawn yet; the first pass is still to be shuffled.
iter(N) == [remaining |-> 1..N, drawn |-> 0]

\* The samples of S in ascending order.
SetToSeq(S) ==
    CHOOSE f \in [1..Cardinality(S) -> S] : \A x, y \in 1..Cardinality(S) : x < y => f[x] < f[y]

\* The batches .shuffle(1024).batch(batch_size, drop_remainder=True) can cut
\* from the samples a pass has left: any batch_size distinct samples.  (The
\* order of the rows inside a batch changes nothing the model reads: a batch
\* lists its samples in ascending order.)
Batches(pool) ==
    {SetToSeq(b) : b \in {c \in SUBSET pool : Cardinality(c) = batch_size}}

\* The pipeline without .repeat(): one pass, and the iterator is exhausted.
NextBatch_one_pass(it, N) ==
    {[batch |-> b,
      it |-> [remaining |-> it.remaining \ Range(b), drawn |-> it.drawn + 1]] :
        b \in Batches(it.remaining)}

\* The pipeline without drop_remainder: what a pass has left is delivered,
\* however few samples it is.
NextBatch_keep_remainder(it, N) ==
    LET pool == IF it.remaining # {} THEN it.remaining ELSE 1..N
        size == Min(batch_size, Cardinality(pool))
    IN  {[batch |-> SetToSeq(b),
          it |-> [remaining |-> pool \ b, drawn |-> it.drawn + 1]] :
            b \in {c \in SUBSET pool : Cardinality(c) = size}}

\* The pipeline with .repeat() before .batch(): the samples a pass has left
\* over start the next batch, which is filled up from the next pass.
NextBatch_repeat_before_batch(it, N) ==
    IF Cardinality(it.remaining) >= batch_size
    THEN {[batch |-> b,
           it |-> [remaining |-> it.remaining \ Range(b), drawn |-> it.drawn + 1]] :
             b \in Batches(it.remaining)}
    ELSE {[batch |-> SetToSeq(it.remaining) \o SetToSeq(c),
           it |-> [remaining |-> (1..N) \ c, drawn |-> it.drawn + 1]] :
             c \in {x \in SUBSET (1..N) :
                      Cardinality(x) = batch_size - Cardinality(it.remaining)}}

\* next(iterator): the batch and the iterator after it.  A pass that has
\* fewer than batch_size samples left ends (drop_remainder) and, the dataset
\* being repeated, the next pass starts.
NextBatch(it, N) ==
    LET pool == IF Cardinality(it.remaining) >= batch_size THEN it.remaining ELSE 1..N
    IN  {[batch |-> b,
          it |-> [remaining |-> pool \ Range(b), drawn |-> it.drawn + 1]] :
            b \in Batches(pool)}

\* k draws in a row: the samples drawn, concatenated, and the iterator left.
RECURSIVE Draws(_, _, _)
Draws(it, N, k) ==
    IF k = 0 THEN {[samples |-> <<>>, it |-> it]}
    ELSE UNION {{[samples |-> d.batch \o rest.samples, it |-> rest.it] :
                    rest \in Draws(d.it, N, k - 1)} : d \in NextBatch(it, N)}

\* ------------------------------------------------------- SVGP (library)
\* gpflow.config.default_jitter(): 1e-6, which is 0 on the integer grid.
default_jitter == 0

\* The sum of column c of a matrix of natural numbers: one unit counted for
\* every k up to each entry.
ColumnSum(M, c) == Cardinality(UNION {{<<r, k>> : k \in 1..M[r][c]} : r \in 1..Len(M)})

\* conditional(Xnew, inducing_variable, kernel, q_mu, q_sqrt=..., full_cov=False):
\*     Kmm = Kuu(inducing_variable, kernel, jitter=default_jitter())
\*     Kmn = Kuf(inducing_variable, kernel, Xnew)
\*     Knn = kernel(Xnew, full_cov=False)
\* and the mean of the latent function at each row of Xnew.
SVGP_conditional(m, Xnew) ==
    LET Kmm == covariances_Kuu(m.inducing_variable, m.kernel, default_jitter)
        Kmn == covariances_Kuf(m.inducing_variable, m.kernel, Xnew)
        Knn == Kernel_call_diag(m.kernel, Xnew)
        mean == [c \in 1..Len(Xnew.rows) |->
                    m.q_mu + ColumnSum(Kmn.value, c)]
    IN  Effect(Kmm.ok /\ Kmn.ok /\ Knn.ok, mean, Kmm.calls \o Kmn.calls \o Knn.calls)

\* model.elbo(batch): the conditional at the batch's images.
SVGP_elbo(m, batch) == SVGP_conditional(m, Images(batch))

\* model.predict_y(Xnew): the conditional at Xnew, through the likelihood.
SVGP_predict_y(m, Xnew) == SVGP_conditional(m, Xnew)

\* ------------------------------------------------------ Adam (library)
Clip(x, lo, hi) == Max(lo, Min(hi, x))

MaxFeature == MaxWeight * MaxPixel

\* The signs of the gradient of the loss, one per trainable variable.  The
\* network's weights and the base kernel's parameters share a sign, and so do
\* the inducing points and the variational parameters.
Gradients ==
    {[cnn |-> k, variance |-> k, lengthscales |-> k, Z |-> q, q_mu |-> q, q_sqrt |-> q] :
        k \in {-1, 1}, q \in {-1, 1}}

\* optimizer.minimize(loss, var_list): every variable of var_list moves one
\* step against the sign of its gradient, inside its range.
Adam_apply(m, var_list, g) ==
    LET bk == m.kernel.base_kernel
        upd(name, x, lo, hi) == IF name \in var_list THEN Clip(x - g[name], lo, hi) ELSE x
        Zrows == m.inducing_variable.Z.rows
    IN  [kernel |->
            [class |-> m.kernel.class,
             cnn |-> [w |-> upd("cnn", m.kernel.cnn.w, 0, MaxWeight)],
             base_kernel |->
                [class |-> bk.class,
                 variance |-> upd("variance", bk.variance, 1, MaxKernelParam),
                 lengthscales |-> upd("lengthscales", bk.lengthscales, 1, MaxKernelParam)]],
         inducing_variable |->
            [class |-> m.inducing_variable.class,
             Z |-> Tensor(m.inducing_variable.Z.space,
                          [r \in 1..Len(Zrows) |->
                              [c \in 1..Len(Zrows[r]) |->
                                  upd("Z", Zrows[r][c], 0, MaxFeature)]])],
         q_mu |-> upd("q_mu", m.q_mu, 0, 1),
         q_sqrt |-> upd("q_sqrt", m.q_sqrt, 1, 2)]

\* A var_list that leaves the network's weights out.
TrainableNames_without_cnn == {"variance", "lengthscales", "Z", "q_mu", "q_sqrt"}

\* The names of model.trainable_variables, as var_list hands them to Adam.
TrainableNames == {"cnn", "variance", "lengthscales", "Z", "q_mu", "q_sqrt"}

\* ------------------------------------------------------------------ state
VARIABLES
    pc,             \* where the notebook is
    model,          \* the SVGP model: kernel, inducing points, q_mu, q_sqrt
    iterations,     \* ci_niter(100): the number of optimization steps asked for
    step,           \* the loop index of "for _ in range(iterations)"
    data_iterator,  \* iter(dataset)
    total_num_data, \* the number of samples of the dataset
    subset,         \* images_subset and labels_subset
    acc,            \* the accuracy printed, in percent
    result,         \* the last evaluation: function, arguments, value, calls
    nb,             \* the names bound in the latent-variable notebook
    twin,           \* the same notebook run on the same data with other labels
    config          \* gpflow.config: the library's process-wide settings

vars == <<pc, model, iterations, step, data_iterator, total_num_data, subset,
          acc, result, nb, twin, config>>

\* The variables of the classification notebook, and of the latent-variable one.
classification_vars ==
    <<pc, model, iterations, step, data_iterator, total_num_data, subset, acc, result>>
latent_vars == <<nb, twin>>

\* gpflow.config as the library starts with it: float64, no summary format,
\* and the default jitter.
DefaultConfig == [float |-> "float64", summary_fmt |-> "none", jitter |-> default_jitter]

\* gpflow.config.set_default_float(value_type)
set_default_float(c, value_type) == [c EXCEPT !.float = value_type]

\* gpflow.config.set_default_summary_fmt(value)
set_default_summary_fmt(c, value) == [c EXCEPT !.summary_fmt = value]

\* An evaluation: the function evaluated, its arguments (a, b: tensors,
\* jitter), and what it returned.
Result(fn, a, b, jitter, eff) ==
    [fn |-> fn, a |-> a, b |-> b, jitter |-> jitter,
     ok |-> eff.ok, value |-> eff.value, calls |-> eff.calls]

NoResult == Result("none", None, None, NoJitter, Effect(TRUE, <<>>, <<>>))

\* gpflow.kernels.SquaredExponential(), gpflow.kernels.Linear()
BaseKernels ==
    {[class |-> "SquaredExponential", variance |-> v, lengthscales |-> l] :
        v \in 1..MaxKernelParam, l \in 1..MaxKernelParam}
    \cup {[class |-> "Linear", variance |-> v, lengthscales |-> 1] :
            v \in 1..MaxKernelParam}

Weights == {[w |-> w] : w \in 0..MaxWeight}

\* gpflow.models.SVGP(kernel, likelihood, inducing_variable=..., ...): q_mu
\* starts at zero and q_sqrt at the identity.
SVGP(kernel, inducing_variable) ==
    [kernel |-> kernel, inducing_variable |-> inducing_variable,
     q_mu |-> 0, q_sqrt |-> 1]

\* model.trainable_variables
trainable_variables(m) ==
    [cnn |-> m.kernel.cnn,
     variance |-> m.kernel.base_kernel.variance,
     lengthscales |-> m.kernel.base_kernel.lengthscales,
     Z |-> m.inducing_variable.Z,
     q_mu |-> m.q_mu,
     q_sqrt |-> m.q_sqrt]

NoIterator == [remaining |-> {}, drawn |-> 0]

NoSubset == [images |-> None, labels |-> <<>>]

\* acc before the last cell has run.
NoAcc == -1

\* gpflow.kernels.SquaredExponential(): variance 1, lengthscales 1.
SquaredExponential == [class |-> "SquaredExponential", variance |-> 1, lengthscales |-> 1]

\* The names model, kernel and inducing_variable before the cell that binds them.
NoModel ==
    [kernel |-> [class |-> "KernelWithConvNN", cnn |-> [w |-> 0],
                 base_kernel |-> SquaredExponential],
     inducing_variable |-> [class |-> "KernelSpaceInducingPoints", Z |-> None],
     q_mu |-> 0, q_sqrt |-> 1]

\* ----------------------------------------------- the latent-variable notebook
\* latent_dim = 2, scaled down to one latent dimension.
latent_dim == 1
\* num_inducing = 20, scaled down to two inducing points.
num_inducing == 2
\* labels are integers in [0, 2], scaled down to [0, 1].
max_label == 1
\* The likelihood variance in hundredths: the library's default 1, and the
\* 0.01 the notebook assigns.
default_likelihood_variance == 100
assigned_likelihood_variance == 1

\* data['Y']: num_data rows of observations (one column on the model's grid).
Observations(num_data) == [1..num_data -> {<<p>> : p \in Pixels}]

\* data['labels']: one class per data point.
LabelVectors(num_data) == [1..num_data -> 0..max_label]

\* The least element of a set of numbers.
MinOf(S) == CHOOSE x \in S : \A y \in S : x <= y

\* gpflow.utilities.ops.pca_reduce(Y, latent_dim): the rows of Y centred and
\* projected on the leading directions; on the grid, each row's offset from
\* the least row, in every latent dimension.
pca_reduce(Y, dim) ==
    [i \in 1..Len(Y) |-> [c \in 1..dim |-> Y[i][1] - MinOf({Y[k][1] : k \in 1..Len(Y)})]]

\* np.ones((num_data, latent_dim))
ones(rows, cols) == [i \in 1..rows |-> [c \in 1..cols |-> 1]]

\* Drawing rows with replacement (np.random.choice): an index can come twice.
PermutationHeads_with_replacement(n, k) == [1..Min(k, n) -> 1..n]

\* np.random.permutation(X)[:k]: the indices of the first k rows of a
\* reordering of the n rows of X; all n of them when there are fewer than k.
PermutationHeads(n, k) ==
    {f \in [1..Min(k, n) -> 1..n] : \A a, b \in 1..Min(k, n) : a # b => f[a] # f[b]}

\* The states of numpy's global generator, as far as the notebook tells them
\* apart: the state np.random.seed(1) leaves, and another one.
RngStates == {0, 1}

\* np.random.seed(seed): the generator's state is a function of the seed.
np_random_seed(seed) == seed

\* The generator after one call of np.random.permutation.
np_random_advance(state) == 1 - state

\* np.random.permutation as the generator's algorithm has it: the reordering
\* is a function of the generator's state and of the number of rows.  Which
\* function is numpy's business: any one, the same in every run.
Generators(n, k) == [RngStates -> PermutationHeads(n, k)]

\* gpflow.models.BayesianGPLVM(Y, X_data_mean=..., X_data_var=..., kernel=...,
\* inducing_variable=...): the model holds the data and the variables it
\* was given; the likelihood variance starts at the library's default.
BayesianGPLVM(Y, X_data_mean, X_data_var, kernel, inducing_variable) ==
    [Y |-> Y, X_data_mean |-> X_data_mean, X_data_var |-> X_data_var,
     kernel |-> kernel, inducing_variable |-> inducing_variable,
     likelihood_variance |-> default_likelihood_variance]

NoGPLVM == BayesianGPLVM(<<>>, <<>>, <<>>, SquaredExponential, <<>>)

\* gpflow.optimizers.Scipy().minimize hands method to scipy.optimize.minimize,
\* which lower-cases the name and looks the solver up.
scipy_solver(method) ==
    CASE method \in {"bfgs", "BFGS"} -> "BFGS"
      [] method \in {"l-bfgs-b", "L-BFGS-B"} -> "L-BFGS-B"
      [] method \in {"cg", "CG"} -> "CG"
      [] OTHER -> "unknown"

\* The state of the optimizer: the calls of opt.minimize made so far, and for
\* the last one the solver, the iteration cap, the iterations made and
\* whether the call is running, has returned or has raised.
NoOpt == [calls |-> 0, solver |-> "none", maxiter |-> 0, nit |-> 0,
          data |-> <<>>, status |-> "none"]

NoPlot == [X_pca |-> <<>>, gplvm_X_mean |-> <<>>, groups |-> <<>>]

\* The names of the notebook before its first cell, and the state of numpy's
\* generator in the notebook's process: now, and when the process started.
NoNotebook ==
    [cell |-> "none", Y |-> <<>>, labels |-> <<>>,
     X_mean_init |-> <<>>, X_var_init |-> <<>>, inducing_variable |-> <<>>,
     gplvm |-> NoGPLVM, opt |-> NoOpt, plot |-> NoPlot, log |-> <<>>,
     rng |-> 0, rng_at_start |-> 0]

\* data = np.load(...);  Y = ...;  labels = ...
Cell_data(Y, labels) ==
    [NoNotebook EXCEPT !.cell = "data", !.Y = Y, !.labels = labels]

\* A supervised initialisation: the latent means start from the class of each
\* point instead of its principal components.
Cell_pca_supervised(n) ==
    [n EXCEPT !.cell = "pca",
              !.X_mean_init = [i \in 1..Len(n.Y) |-> [c \in 1..latent_dim |-> n.labels[i]]],
              !.X_var_init = ones(Len(n.Y), latent_dim),
              !.log = Append(n.log, "pca")]

\* X_mean_init = ops.pca_reduce(Y, latent_dim)
\* X_var_init = np.ones((num_data, latent_dim))
Cell_pca(n) ==
    [n EXCEPT !.cell = "pca",
              !.X_mean_init = pca_reduce(n.Y, latent_dim),
              !.X_var_init = ones(Len(n.Y), latent_dim),
              !.log = Append(n.log, "pca")]

\* The cell without its first line: the generator is left in the state the
\* process started it in.
Cell_inducing_unseeded(n, generator) ==
    LET state == n.rng
        head == generator[state]
    IN  [n EXCEPT !.cell = "inducing",
                  !.inducing_variable = [j \in 1..Len(head) |-> n.X_mean_init[head[j]]],
                  !.rng = np_random_advance(state)]

\* np.random.seed(1)  # for reproducibility
\* inducing_variable = np.random.permutation(X_mean_init.numpy())[:num_inducing]
Cell_inducing(n, generator) ==
    LET state == np_random_seed(1)
        head == generator[state]
    IN  [n EXCEPT !.cell = "inducing",
                  !.inducing_variable = [j \in 1..Len(head) |-> n.X_mean_init[head[j]]],
                  !.rng = np_random_advance(state)]

\* kernel = gpflow.kernels.RBF(lengthscales=[1.0] * latent_dim)
\* gplvm = gpflow.models.BayesianGPLVM(Y, X_data_mean=X_mean_init,
\*             X_data_var=X_var_init, kernel=kernel, inducing_variable=...)
Cell_construct(n) ==
    [n EXCEPT !.cell = "constructed",
              !.gplvm = BayesianGPLVM(n.Y, n.X_mean_init, n.X_var_init,
                                      SquaredExponential, n.inducing_variable),
              !.log = Append(n.log, "construct")]

\* gplvm.likelihood.variance.assign(0.01)
Cell_assign(n) ==
    [n EXCEPT !.cell = "assigned",
              !.gplvm.likelihood_variance = assigned_likelihood_variance]

\* One iteration of the solver on gplvm.trainable_variables: every variable
\* moves one step along the direction the solver chose, inside its range.
Scipy_update(m, g) ==
    LET move(X, lo, hi) ==
            [i \in 1..Len(X) |-> [c \in 1..Len(X[i]) |-> Clip(X[i][c] - g, lo, hi)]]
    IN  [m EXCEPT !.X_data_mean = move(m.X_data_mean, 0, MaxPixel),
                  !.X_data_var = move(m.X_data_var, 1, 2),
                  !.inducing_variable = move(m.inducing_variable, 0, MaxPixel),
                  !.kernel.variance = Clip(m.kernel.variance - g, 1, MaxKernelParam),
                  !.kernel.lengthscales = Clip(m.kernel.lengthscales - g, 1, MaxKernelParam),
                  !.likelihood_variance =
                      Clip(m.likelihood_variance - g, assigned_likelihood_variance,
                           assigned_likelihood_variance + 1)]

\* The directions an iteration of the solver can take.
SolverDirections == {-1, 1}

\* opt = gpflow.optimizers.Scipy();  maxiter = ci_niter(1000)
\* _ = opt.minimize(optimization_step, method="bfgs",
\*                  variables=gplvm.trainable_variables, options=dict(maxiter=maxiter))
\* The call is made: the solver starts on the objective of the whole model
\* (optimization_step returns -gplvm.log_marginal_likelihood(), over all of Y).
Cell_minimize(n, maxiter) ==
    [n EXCEPT !.cell = "optimizing",
              !.opt = [calls |-> n.opt.calls + 1, solver |-> scipy_solver("bfgs"),
                       maxiter |-> maxiter, nit |-> 0, data |-> n.gplvm.Y,
                       status |-> "running"],
              !.log = Append(n.log, "minimize")]

\* Inside scipy.optimize.minimize: one more iteration, while the cap allows.
Scipy_iterate(n, g) ==
    [n EXCEPT !.gplvm = Scipy_update(n.gplvm, g), !.opt.nit = n.opt.nit + 1]

\* scipy.optimize.minimize returns: it has converged or has reached maxiter.
Scipy_return(n) ==
    [n EXCEPT !.cell = "optimized", !.opt.status = "returned",
              !.log = Append(n.log, "return")]

\* The objective or the solver raises: the exception leaves the cell.
Scipy_raise(n) ==
    [n EXCEPT !.cell = "failed", !.opt.status = "raised"]

\* X_pca = ops.pca_reduce(Y, latent_dim)
\* gplvm_X_mean = gplvm.X_data_mean.numpy()
\* for i in np.unique(labels): scatter of the rows with labels == i
Cell_plot(n) ==
    [n EXCEPT !.cell = "plotted",
              !.plot = [X_pca |-> pca_reduce(n.Y, latent_dim),
                        gplvm_X_mean |-> n.gplvm.X_data_mean,
                        groups |-> [i \in Range(n.labels) |->
                                       {k \in 1..Len(n.labels) : n.labels[k] = i}]],
              !.log = Append(n.log, "plot")]

\* ------------------------------------------------- the kernel on its own
\* Centroids the inducing points of a kernel under test are made from.
TestCentroids ==
    {Tensor(0, <<<<0, MaxPixel>>, <<MaxPixel, 0>>>>),
     Tensor(0, <<<<MaxPixel, MaxPixel>>, <<0, 0>>>>)}

\* A kernel object with any weights and any base kernel, and inducing points
\* in its network's output space; no evaluation has been made.
InitKernel ==
    /\ pc = "kernel"
    /\ \E weights \in Weights, bk \in BaseKernels, c \in TestCentroids :
          model = SVGP(KernelWithConvNN(weights, bk),
                       InducingPoints("KernelSpaceInducingPoints", cnn(weights, c)))
    /\ iterations = 0
    /\ step = 0
    /\ data_iterator = NoIterator
    /\ total_num_data = batch_size
    /\ subset = NoSubset
    /\ acc = NoAcc
    /\ result = NoResult
    /\ nb = NoNotebook
    /\ twin = NoNotebook
    /\ config = DefaultConfig

\* The batches an evaluation may be handed: any raw batch when the kernel is
\* on its own, the subset's images in the notebook.
EvalBatches == IF pc = "kernel" THEN RawBatches ELSE {subset.images}

\* An evaluation returns r: on its own the kernel is evaluated once; in the
\* notebook an evaluation stands between two cells and the notebook goes on.
Returned(r) ==
    /\ pc \in {"kernel", "constructed", "trained"}
    /\ pc' = IF pc = "kernel" THEN "returned" ELSE pc
    /\ result' = r
    /\ UNCHANGED <<model, iterations, step, data_iterator, total_num_data, subset, acc, nb, twin, config>>

\* kernel.K(a_input, b_input) and kernel.K(a_input)
EvalK ==
    \E a_input \in EvalBatches, b_input \in EvalBatches \cup {None} :
        Returned(Result("K", a_input, b_input, NoJitter,
                        KernelWithConvNN_K(model.kernel, a_input, b_input)))

\* K_diag evaluated with the network in training mode: the evaluation moves
\* the network's weights.
EvalK_diag_training ==
    /\ pc \in {"kernel", "constructed", "trained"}
    /\ \E a_input \in EvalBatches :
          result' = Result("K_diag", a_input, None, NoJitter,
                           KernelWithConvNN_K_diag(model.kernel, a_input))
    /\ model' = [model EXCEPT !.kernel.cnn.w = (@ + 1) % (MaxWeight + 1)]
    /\ pc' = IF pc = "kernel" THEN "returned" ELSE pc
    /\ UNCHANGED <<iterations, step, data_iterator, total_num_data, subset, acc, nb, twin, config>>

\* kernel.K_diag(a_input)
EvalK_diag ==
    \E a_input \in EvalBatches :
        Returned(Result("K_diag", a_input, None, NoJitter,
                        KernelWithConvNN_K_diag(model.kernel, a_input)))

\* The jitters an evaluation of Kuu may be handed: any, or none, when the
\* kernel is on its own; the library's default, as SVGP passes it, in the
\* notebook.
EvalJitters == IF pc = "kernel" THEN (0..MaxJitter) \cup {NoJitter} ELSE {default_jitter}

\* gpflow.covariances.Kuu(inducing_variable, kernel, jitter=jitter) and
\* gpflow.covariances.Kuu(inducing_variable, kernel)
EvalKuu ==
    \E jitter \in EvalJitters :
        Returned(Result("Kuu", None, None, jitter,
                        covariances_Kuu(model.inducing_variable, model.kernel, jitter)))

\* gpflow.covariances.Kuf(inducing_variable, kernel, a_input)
EvalKuf ==
    \E a_input \in EvalBatches :
        Returned(Result("Kuf", a_input, None, NoJitter,
                        covariances_Kuf(model.inducing_variable, model.kernel, a_input)))

NextKernel == EvalK \/ EvalK_diag \/ EvalKuu \/ EvalKuf

SpecKernel == InitKernel /\ [][NextKernel]_vars

\* ---------------------------------------------- the dispatcher on its own
\* The kinds of inducing points and of kernels a covariance can be asked for.
InducingVariableClasses == {"InducingPoints", "KernelSpaceInducingPoints"}
KernelClasses == {"KernelWithConvNN", "SquaredExponential", "Linear"}

\* Inducing points of either kind with a kernel of any kind: the composite
\* kernel over any base kernel, or a base kernel by itself.  Plain inducing
\* points of a composite kernel live in the space of the images.
InitDispatch ==
    /\ pc = "kernel"
    /\ \E class \in InducingVariableClasses, weights \in Weights, bk \in BaseKernels,
          composite \in BOOLEAN, c \in TestCentroids :
          LET kernel == IF composite THEN KernelWithConvNN(weights, bk) ELSE bk
              Z == IF composite /\ class = "InducingPoints" THEN c ELSE cnn(weights, c)
          IN  model = SVGP(kernel, InducingPoints(class, Z))
    /\ iterations = 0
    /\ step = 0
    /\ data_iterator = NoIterator
    /\ total_num_data = batch_size
    /\ subset = NoSubset
    /\ acc = NoAcc
    /\ result = NoResult
    /\ nb = NoNotebook
    /\ twin = NoNotebook
    /\ config = DefaultConfig

NextDispatch == EvalKuu \/ EvalKuf

SpecDispatch == InitDispatch /\ [][NextDispatch]_vars

\* ------------------------------------------- the classification notebook
\* scipy.cluster.vq.kmeans2(data, k, minit='points')[0]: k centroids in the
\* space of the data, each among the data's rows.
kmeans2(data, k) ==
    {Tensor(data.space, rows) : rows \in [1..k -> Range(data.rows)]}

kmeans2_call(data) == Call("kmeans2", <<data>>)

\* The notebook's first cells have run: the dataset pipeline is built, the
\* classes are defined and the covariances are registered.
Init ==
    /\ pc = "start"
    /\ total_num_data \in batch_size..MaxData
    /\ iterations \in 0..MaxIter
    /\ model = NoModel
    /\ step = 0
    /\ data_iterator = NoIterator
    /\ subset = NoSubset
    /\ acc = NoAcc
    /\ result = NoResult
    /\ nb = NoNotebook
    /\ twin = NoNotebook
    /\ config = DefaultConfig

\* The construction cell with the two lines the other way round: the subset
\* goes through the network first and kmeans2 clusters its features.
ConstructModel_cluster_features ==
    /\ pc = "start"
    /\ \E d \in Draws(iter(total_num_data), total_num_data, subset_batches),
          weights \in Weights :
        LET images_subset == Images(d.samples)
            labels_subset == [r \in 1..Len(d.samples) |-> Label(d.samples[r])]
            kernel == KernelWithConvNN(weights, SquaredExponential)
            features == cnn(kernel.cnn, images_subset)
        IN  \E inducing_variable_kmeans \in kmeans2(features, num_inducing_points) :
              /\ subset' = [images |-> images_subset, labels |-> labels_subset]
              /\ model' = SVGP(kernel, InducingPoints("KernelSpaceInducingPoints",
                                                      inducing_variable_kmeans))
              /\ result' = Result("construct", images_subset, None, NoJitter,
                                  Effect(TRUE, inducing_variable_kmeans,
                                         <<cnn_call(images_subset),
                                           kmeans2_call(features)>>))
    /\ pc' = "constructed"
    /\ UNCHANGED <<iterations, step, data_iterator, total_num_data, acc, nb, twin, config>>

\* images_subset, labels_subset = next(iter(dataset.batch(32)))
\* kernel = KernelWithConvNN(image_shape, output_dim, SquaredExponential(), ...)
\* inducing_variable_kmeans = kmeans2(images_subset.numpy(), num_inducing_points, ...)[0]
\* inducing_variable_cnn = kernel.cnn(inducing_variable_kmeans)
\* inducing_variable = KernelSpaceInducingPoints(inducing_variable_cnn)
\* model = gpflow.models.SVGP(kernel, likelihood, inducing_variable=..., ...)
ConstructModel ==
    /\ pc = "start"
    /\ \E d \in Draws(iter(total_num_data), total_num_data, subset_batches),
          weights \in Weights :
        LET images_subset == Images(d.samples)
            labels_subset == [r \in 1..Len(d.samples) |-> Label(d.samples[r])]
            kernel == KernelWithConvNN(weights, SquaredExponential)
        IN  \E inducing_variable_kmeans \in kmeans2(images_subset, num_inducing_points) :
              LET inducing_variable_cnn == cnn(kernel.cnn, inducing_variable_kmeans)
                  inducing_variable ==
                      InducingPoints("KernelSpaceInducingPoints", inducing_variable_cnn)
              IN  /\ subset' = [images |-> images_subset, labels |-> labels_subset]
                  /\ model' = SVGP(kernel, inducing_variable)
                  /\ result' = Result("construct", inducing_variable_kmeans, None, NoJitter,
                                      Effect(TRUE, inducing_variable_cnn,
                                             <<kmeans2_call(images_subset),
                                               cnn_call(inducing_variable_kmeans)>>))
    /\ pc' = "constructed"
    /\ UNCHANGED <<iterations, step, data_iterator, total_num_data, acc, nb, twin, config>>

\* The training cell going on with the iterator the subset was drawn
\* through: data_iterator starts where that draw stopped.
StartTraining_subset_iterator ==
    /\ pc = "constructed"
    /\ \E d \in Draws(iter(total_num_data), total_num_data, subset_batches) :
          /\ Images(d.samples) = subset.images
          /\ data_iterator' = d.it
    /\ step' = 0
    /\ pc' = "training"
    /\ result' = NoResult
    /\ UNCHANGED <<model, iterations, total_num_data, subset, acc, nb, twin, config>>

\* data_iterator = iter(dataset);  adam_opt = tf.optimizers.Adam(0.001)
\* and the for statement is entered; the cell has returned nothing yet.
StartTraining ==
    /\ pc = "constructed"
    /\ data_iterator' = iter(total_num_data)
    /\ step' = 0
    /\ pc' = "training"
    /\ result' = NoResult
    /\ UNCHANGED <<model, iterations, total_num_data, subset, acc, nb, twin, config>>

\* loss_cb(batch): -model.elbo(batch)
loss_cb(m, batch) == SVGP_elbo(m, batch)

\* The for statement taking one pass more than asked for.
range_has_next_inclusive == step <= iterations

\* for _ in range(iterations): another pass is due.
range_has_next == step < iterations

\* The loop body inside a try/except that goes on to the next pass: a step
\* that raises is counted and the loop continues.
OptimizationStep_caught ==
    /\ pc = "training"
    /\ range_has_next
    /\ \E d \in NextBatch(data_iterator, total_num_data), raises \in BOOLEAN :
        LET loss == loss_cb(model, d.batch)
        IN  /\ data_iterator' = d.it
            /\ result' = Result("optimization_step", Images(d.batch), None, NoJitter,
                                Effect(loss.ok /\ ~raises, loss.value, loss.calls))
            /\ IF loss.ok /\ ~raises
               THEN \E g \in Gradients : model' = Adam_apply(model, TrainableNames, g)
               ELSE UNCHANGED model
            /\ step' = step + 1
            /\ pc' = "training"
    /\ UNCHANGED <<iterations, total_num_data, subset, acc, nb, twin, config>>

\* The loop body calling next(data_iterator) twice: the first batch is
\* dropped and the loss is evaluated on the second.
OptimizationStep_two_draws ==
    /\ pc = "training"
    /\ range_has_next
    /\ \E skipped \in NextBatch(data_iterator, total_num_data), raises \in BOOLEAN :
        \E d \in NextBatch(skipped.it, total_num_data) :
        LET loss == loss_cb(model, d.batch)
        IN  /\ data_iterator' = d.it
            /\ result' = Result("optimization_step", Images(d.batch), None, NoJitter,
                                Effect(loss.ok /\ ~raises, loss.value, loss.calls))
            /\ IF loss.ok /\ ~raises
               THEN /\ \E g \in Gradients :
                         model' = Adam_apply(model, TrainableNames, g)
                    /\ step' = step + 1
                    /\ pc' = "training"
               ELSE /\ pc' = "failed"
                    /\ UNCHANGED <<model, step>>
    /\ UNCHANGED <<iterations, total_num_data, subset, acc, nb, twin, config>>

\* One pass of the loop body:
\*     def optimization_step():
\*         batch = next(data_iterator)
\*         func = lambda: loss_cb(batch)
\*         adam_opt.minimize(func, var_list=model.trainable_variables)
\* The library either raises while it evaluates the loss, and the exception
\* leaves the loop, or returns, and Adam has moved the variables.
OptimizationStep ==
    /\ pc = "training"
    /\ range_has_next
    /\ \E d \in NextBatch(data_iterator, total_num_data), raises \in BOOLEAN :
        LET loss == loss_cb(model, d.batch)
        IN  /\ data_iterator' = d.it
            /\ result' = Result("optimization_step", Images(d.batch), None, NoJitter,
                                Effect(loss.ok /\ ~raises, loss.value, loss.calls))
            /\ IF loss.ok /\ ~raises
               THEN /\ \E g \in Gradients :
                         model' = Adam_apply(model, TrainableNames, g)
                    /\ step' = step + 1
                    /\ pc' = "training"
               ELSE /\ pc' = "failed"
                    /\ UNCHANGED <<model, step>>
    /\ UNCHANGED <<iterations, total_num_data, subset, acc, nb, twin, config>>

\* The loop with a convergence check: it also ends once a step has returned.
FinishTraining_converged ==
    /\ pc = "training"
    /\ (~range_has_next \/ result.fn = "optimization_step")
    /\ pc' = "trained"
    /\ UNCHANGED <<model, iterations, step, data_iterator, total_num_data, subset,
                   acc, result, nb, twin, config>>

\* range(iterations) is exhausted: the for statement ends.
FinishTraining ==
    /\ pc = "training"
    /\ ~range_has_next
    /\ pc' = "trained"
    /\ UNCHANGED <<model, iterations, step, data_iterator, total_num_data, subset,
                   acc, result, nb, twin, config>>

\* The prediction cell building the model anew before it predicts: the
\* trained kernel and inducing points in a fresh SVGP.
Predict_on_new_model ==
    /\ pc = "trained"
    /\ model' = SVGP(model.kernel, model.inducing_variable)
    /\ LET p == SVGP_predict_y(model', subset.images)
       IN  /\ result' = Result("predict_y", subset.images, None, NoJitter, p)
           /\ acc' = 0
    /\ pc' = "done"
    /\ UNCHANGED <<iterations, step, data_iterator, total_num_data, subset, nb, twin, config>>

\* The prediction cell run while the loop has passes left.
Predict_during_training ==
    /\ pc \in {"training", "trained"}
    /\ LET p == SVGP_predict_y(model, subset.images)
           m == p.value
           preds(r) == m[r] % num_mnist_classes
           correct == {r \in 1..Len(subset.labels) : preds(r) = subset.labels[r]}
       IN  /\ result' = Result("predict_y", subset.images, None, NoJitter, p)
           /\ acc' = (100 * Cardinality(correct)) \div Len(subset.labels)
    /\ pc' = "done"
    /\ UNCHANGED <<model, iterations, step, data_iterator, total_num_data, subset, nb, twin, config>>

\* m, v = model.predict_y(images_subset)
\* preds = np.argmax(m, 1).reshape(labels_subset.numpy().shape)
\* correct = (preds == labels_subset.numpy().astype(int))
\* acc = np.average(correct.astype(float)) * 100.
\* print('Accuracy is {:.4f}%'.format(acc))
Predict ==
    /\ pc = "trained"
    /\ LET p == SVGP_predict_y(model, subset.images)
           m == p.value
           preds(r) == m[r] % num_mnist_classes
           correct == {r \in 1..Len(subset.labels) : preds(r) = subset.labels[r]}
       IN  /\ result' = Result("predict_y", subset.images, None, NoJitter, p)
           /\ acc' = (100 * Cardinality(correct)) \div Len(subset.labels)
    /\ pc' = "done"
    /\ UNCHANGED <<model, iterations, step, data_iterator, total_num_data, subset, nb, twin, config>>

Next ==
    \/ ConstructModel
    \/ StartTraining
    \/ OptimizationStep
    \/ FinishTraining
    \/ Predict

Spec == Init /\ [][Next]_vars

\* The notebook with evaluations of the kernel and of the covariances between
\* its cells.
NextFrame == Next \/ NextKernel

SpecFrame == Init /\ [][NextFrame]_vars

\* ------------------------------------------------- the dataset on its own
\* A dataset of any size from one batch up, and an iterator over it that
\* has drawn nothing.
InitDataset ==
    /\ pc = "dataset"
    /\ total_num_data \in batch_size..MaxSamples
    /\ data_iterator = iter(total_num_data)
    /\ model = NoModel
    /\ iterations = 0
    /\ step = 0
    /\ subset = NoSubset
    /\ acc = NoAcc
    /\ result = NoResult
    /\ nb = NoNotebook
    /\ twin = NoNotebook
    /\ config = DefaultConfig

\* batch = next(data_iterator): the samples of the batch and their images.
NextOfIterator ==
    /\ pc = "dataset"
    /\ data_iterator.drawn < MaxDraws
    /\ \E d \in NextBatch(data_iterator, total_num_data) :
          /\ data_iterator' = d.it
          /\ result' = Result("next", Images(d.batch), None, NoJitter,
                              Effect(TRUE, d.batch, <<>>))
    /\ UNCHANGED <<pc, model, iterations, step, total_num_data, subset, acc, nb, twin, config>>

NextDataset == NextOfIterator

SpecDataset == InitDataset /\ [][NextDataset]_vars

\* ------------------------------------- the latent-variable notebook, run
\* The label vector of the twin run: class 0 for every point.
TwinLabels(num_data) == [k \in 1..num_data |-> 0]

\* The data cells have run, in the notebook and in its twin: the same Y, any
\* labels in the notebook, and each process with its own generator state.
InitGPLVM ==
    /\ \E num_data \in 1..MaxData :
         \E Y \in Observations(num_data), labels \in LabelVectors(num_data),
            rng \in RngStates, twin_rng \in RngStates :
            /\ nb = [Cell_data(Y, labels) EXCEPT !.rng = rng, !.rng_at_start = rng]
            /\ twin = [Cell_data(Y, TwinLabels(num_data))
                          EXCEPT !.rng = twin_rng, !.rng_at_start = twin_rng]
    /\ pc = "gplvm"
    /\ config = set_default_summary_fmt(set_default_float(DefaultConfig, "float64"),
                                         "notebook")
    /\ model = NoModel
    /\ iterations = 0
    /\ step = 0
    /\ data_iterator = NoIterator
    /\ total_num_data = batch_size
    /\ subset = NoSubset
    /\ acc = NoAcc
    /\ result = NoResult

PcaCell ==
    /\ nb.cell = "data"
    /\ nb' = Cell_pca(nb)
    /\ twin' = Cell_pca(twin)
    /\ UNCHANGED <<classification_vars, config>>

InducingCell ==
    /\ nb.cell = "pca"
    /\ \E generator \in Generators(Len(nb.X_mean_init), num_inducing) :
          /\ nb' = Cell_inducing(nb, generator)
          /\ twin' = Cell_inducing(twin, generator)
    /\ UNCHANGED <<classification_vars, config>>

ConstructCell ==
    /\ nb.cell = "inducing"
    /\ nb' = Cell_construct(nb)
    /\ twin' = Cell_construct(twin)
    /\ UNCHANGED <<classification_vars, config>>

AssignCell ==
    /\ nb.cell = "constructed"
    /\ nb' = Cell_assign(nb)
    /\ twin' = Cell_assign(twin)
    /\ UNCHANGED <<classification_vars, config>>

\* A notebook that puts the call in a loop of its own: opt.minimize is called
\* again after it has returned.
MinimizeCell_in_loop ==
    /\ nb.cell \in {"assigned", "optimized"}
    /\ \E maxiter \in 1..MaxIter :
          /\ nb' = Cell_minimize(nb, maxiter)
          /\ twin' = Cell_minimize(twin, maxiter)
    /\ UNCHANGED <<classification_vars, config>>

\* The optimization cell calls opt.minimize.
MinimizeCell ==
    /\ nb.cell = "assigned"
    /\ \E maxiter \in 1..MaxIter :
          /\ nb' = Cell_minimize(nb, maxiter)
          /\ twin' = Cell_minimize(twin, maxiter)
    /\ UNCHANGED <<classification_vars, config>>

\* The two notebooks sharing one kernel object: an iteration of the solver
\* also moves the variance of the classification model's base kernel.
ScipyIterate_shared_kernel ==
    /\ nb.cell = "optimizing"
    /\ nb.opt.nit < nb.opt.maxiter
    /\ \E g \in SolverDirections :
          /\ nb' = Scipy_iterate(nb, g)
          /\ twin' = Scipy_iterate(twin, g)
          /\ model' = [model EXCEPT !.kernel.base_kernel.variance =
                                        Clip(@ - g, 1, MaxKernelParam)]
    /\ UNCHANGED <<pc, iterations, step, data_iterator, total_num_data, subset, acc,
                   result, config>>

ScipyIterate ==
    /\ nb.cell = "optimizing"
    /\ nb.opt.nit < nb.opt.maxiter
    /\ \E g \in SolverDirections :
          /\ nb' = Scipy_iterate(nb, g)
          /\ twin' = Scipy_iterate(twin, g)
    /\ UNCHANGED <<classification_vars, config>>

ScipyReturn ==
    /\ nb.cell = "optimizing"
    /\ nb' = Scipy_return(nb)
    /\ twin' = Scipy_return(twin)
    /\ UNCHANGED <<classification_vars, config>>

ScipyRaise ==
    /\ nb.cell = "optimizing"
    /\ nb' = Scipy_raise(nb)
    /\ twin' = Scipy_raise(twin)
    /\ UNCHANGED <<classification_vars, config>>

\* A notebook whose plotting cell can also run before the optimization cell.
PlotCell_before_optimization ==
    /\ nb.cell \in {"assigned", "optimized"}
    /\ nb' = Cell_plot(nb)
    /\ twin' = Cell_plot(twin)
    /\ UNCHANGED <<classification_vars, config>>

\* The plotting cell.
PlotCell ==
    /\ nb.cell = "optimized"
    /\ nb' = Cell_plot(nb)
    /\ twin' = Cell_plot(twin)
    /\ UNCHANGED <<classification_vars, config>>

NextGPLVM ==
    \/ PcaCell
    \/ InducingCell
    \/ ConstructCell
    \/ AssignCell
    \/ MinimizeCell
    \/ ScipyIterate
    \/ ScipyReturn
    \/ ScipyRaise
    \/ PlotCell

SpecGPLVM == InitGPLVM /\ [][NextGPLVM]_vars

\* ---------------------------------------------- the two notebooks together
\* The first cell of the latent-variable notebook: its imports, and
\*     set_default_float(np.float64)
\*     set_default_summary_fmt("notebook")
ImportCell ==
    /\ nb.cell = "none"
    /\ config' = set_default_summary_fmt(set_default_float(config, "float64"), "notebook")
    /\ nb' = [nb EXCEPT !.cell = "imported"]
    /\ twin' = [twin EXCEPT !.cell = "imported"]
    /\ UNCHANGED classification_vars

\* The data cells of the latent-variable notebook, on the smallest data set:
\* one point more than there are latent dimensions, all of one class.
DataCell ==
    /\ nb.cell = "imported"
    /\ \E Y \in Observations(latent_dim + 1) :
          /\ nb' = Cell_data(Y, TwinLabels(Len(Y)))
          /\ twin' = Cell_data(Y, TwinLabels(Len(Y)))
    /\ UNCHANGED <<classification_vars, config>>

\* Both notebooks in one process, no cell of either run yet; the
\* classification notebook on the smallest dataset, for at most one step.
InitInterleaved ==
    /\ pc = "start"
    /\ total_num_data = batch_size
    /\ iterations \in 0..1
    /\ model = NoModel
    /\ step = 0
    /\ data_iterator = NoIterator
    /\ subset = NoSubset
    /\ acc = NoAcc
    /\ result = NoResult
    /\ nb = NoNotebook
    /\ twin = NoNotebook
    /\ config = DefaultConfig

\* The cells of the two notebooks in any interleaved order.
NextInterleaved ==
    \/ Next
    \/ ImportCell
    \/ DataCell
    \/ NextGPLVM

SpecInterleaved == InitInterleaved /\ [][NextInterleaved]_vars

\* ================================================================ claims
\* The calls of a log made to fn.
CallsTo(calls, fn) == SelectSeq(calls, LAMBDA c : c.fn = fn)

\* The calls of a log made to the base kernel, in either mode.
BaseCalls(calls) ==
    SelectSeq(calls, LAMBDA c : c.fn \in {"base_kernel.K", "base_kernel.K_diag"})

\* The arguments of a sequence of calls, one after the other.
RECURSIVE ArgsOf(_)
ArgsOf(calls) == IF calls = <<>> THEN <<>> ELSE Head(calls).args \o ArgsOf(Tail(calls))

EvalNames == {"K", "K_diag", "Kuu", "Kuf"}

\* C1: for raw batches A and B (B present), K(A, B) is, entry by entry, the
\* base kernel of the transformed rows; the network is called once on A and
\* once on B, and the base kernel once, in full mode, on the two outputs.
C1_K_is_base_of_transformed ==
    (pc = "returned" /\ result.fn = "K" /\ result.b # None) =>
        LET bk == model.kernel.base_kernel
            ta == cnn_rows(model.kernel.cnn, result.a.rows)
            tb == cnn_rows(model.kernel.cnn, result.b.rows)
        IN  /\ result.ok
            /\ Len(result.value) = Len(ta)
            /\ \A r \in 1..Len(ta) :
                  /\ Len(result.value[r]) = Len(tb)
                  /\ \A c \in 1..Len(tb) : result.value[r][c] = BaseEntry(bk, ta[r], tb[c])
            /\ ArgsOf(CallsTo(result.calls, "cnn")) = <<result.a, result.b>>
            /\ BaseCalls(result.calls) = <<baseK_call(Tensor(1, ta), Tensor(1, tb))>>

C1_witness ==
    /\ pc = "returned" /\ result.fn = "K" /\ result.b # None
    /\ Len(result.a.rows) = 2 /\ Len(result.b.rows) = 1
    /\ model.kernel.cnn.w = 2
    /\ model.kernel.base_kernel.class = "Linear"
    /\ result.value[2][1] = 8

\* C2: for inducing points Z of class KernelSpaceInducingPoints and a raw
\* batch A, the covariance Kuf(Z, kernel, A) is the base kernel of Z and the
\* transformed A; the network is called on A only, never on Z.
C2_Kuf_transforms_A_only ==
    (pc = "returned" /\ result.fn = "Kuf") =>
        LET bk == model.kernel.base_kernel
            Z == model.inducing_variable.Z
            ta == cnn_rows(model.kernel.cnn, result.a.rows)
        IN  /\ result.ok
            /\ Len(result.value) = Len(Z.rows)
            /\ \A r \in 1..Len(Z.rows) :
                  /\ Len(result.value[r]) = Len(ta)
                  /\ \A c \in 1..Len(ta) :
                        result.value[r][c] = BaseEntry(bk, Z.rows[r], ta[c])
            /\ ArgsOf(CallsTo(result.calls, "cnn")) = <<result.a>>
            /\ ArgsOf(BaseCalls(result.calls)) = <<Z, Tensor(1, ta)>>

C2_witness ==
    /\ pc = "returned" /\ result.fn = "Kuf"
    /\ model.inducing_variable.class = "KernelSpaceInducingPoints"
    /\ model.kernel.cnn.w = 2
    /\ model.kernel.base_kernel.class = "Linear"
    /\ Len(result.a.rows) = 2
    /\ result.value[1][2] = 4

\* C3: for inducing points Z of class KernelSpaceInducingPoints and any
\* jitter, given or not, Kuu(Z, kernel, jitter) is what the base case returns
\* for (Z, kernel.base_kernel, jitter): the base kernel of Z with itself plus
\* the jitter on the diagonal, Z handed on as it is and never transformed.
C3_Kuu_delegates_to_base_case ==
    (pc = "returned" /\ result.fn = "Kuu") =>
        LET bk == model.kernel.base_kernel
            iv == model.inducing_variable
            base_case == Kuu_kernel_inducingpoints(iv, bk, result.jitter)
        IN  /\ result.ok = base_case.ok
            /\ result.value = base_case.value
            /\ result.ok =>
                  \A r, c \in 1..Len(iv.Z.rows) :
                      result.value[r][c] =
                          BaseEntry(bk, iv.Z.rows[r], iv.Z.rows[c])
                            + (IF r = c THEN result.jitter ELSE 0)
            /\ CallsTo(result.calls, "cnn") = <<>>
            /\ ArgsOf(BaseCalls(result.calls)) = <<iv.Z, None>>

C3_witness ==
    /\ pc = "returned" /\ result.fn = "Kuu" /\ result.ok
    /\ result.jitter = MaxJitter
    /\ model.kernel.cnn.w = 2
    /\ model.kernel.base_kernel.class = "Linear"
    /\ result.value[1][1] = 4 * model.kernel.base_kernel.variance + MaxJitter

\* C4: in the notebook (construction, optimization steps, prediction) every
\* tensor handed to the base kernel is in the network's output space: the
\* network has been applied to it exactly once, or it is the inducing points.
C4_base_kernel_sees_transformed_only ==
    \A k \in 1..Len(result.calls) :
        LET c == result.calls[k]
        IN  c.fn \in {"base_kernel.K", "base_kernel.K_diag"} =>
                \A x \in 1..Len(c.args) : c.args[x] # None => c.args[x].space = 1

C4_witness ==
    /\ pc = "done"
    /\ step = MaxIter
    /\ Len(BaseCalls(result.calls)) = 3
    /\ model.inducing_variable.Z.space = 1

\* C5: a Kuu or a Kuf asked for inducing points of class
\* KernelSpaceInducingPoints and a KernelWithConvNN resolves to the
\* notebook's implementation, never to the library's base case, and the
\* network is then never applied to the inducing points.
C5_specialised_implementation_selected ==
    (pc = "returned" /\ result.fn \in {"Kuu", "Kuf"}
        /\ model.inducing_variable.class = "KernelSpaceInducingPoints"
        /\ model.kernel.class = "KernelWithConvNN") =>
        /\ Len(result.calls) > 0
        /\ result.calls[1] = Resolved("covariances." \o result.fn, result.fn)
        /\ \A k \in 1..Len(result.calls) :
              result.calls[k].fn = "cnn" => result.calls[k].args[1].space = 0

C5_witness ==
    /\ pc = "returned" /\ result.fn = "Kuf"
    /\ model.inducing_variable.class = "KernelSpaceInducingPoints"
    /\ model.kernel.class = "KernelWithConvNN"
    /\ result.calls[1].impl = "Kuf"
    /\ model.inducing_variable.Z.rows[1] # <<0, 0>>

\* C6: for a raw batch A, the diagonal of K(A) (second batch absent) is
\* K_diag(A), entry for entry.
C6_diagonal_of_K_is_K_diag ==
    /\ (pc = "returned" /\ result.fn = "K" /\ result.b = None) =>
            Diag(result.value) = KernelWithConvNN_K_diag(model.kernel, result.a).value
    /\ (pc = "returned" /\ result.fn = "K_diag") =>
            result.value = Diag(KernelWithConvNN_K(model.kernel, result.a, None).value)

C6_witness ==
    /\ pc = "returned" /\ result.fn = "K" /\ result.b = None
    /\ Len(result.a.rows) = 2
    /\ model.kernel.cnn.w = 2
    /\ model.kernel.base_kernel.class = "Linear"
    /\ Diag(result.value) = <<4, 8>>

\* C7 as stated: K called with the second batch absent computes the
\* self-covariance through the base kernel's diagonal-only mode and not
\* through its full mode.
C7_as_stated ==
    (pc = "returned" /\ result.fn = "K" /\ result.b = None) =>
        /\ CallsTo(result.calls, "base_kernel.K_diag") # <<>>
        /\ CallsTo(result.calls, "base_kernel.K") = <<>>

\* C7, amended: K called with the second batch absent hands the absent batch
\* on as it is: it calls the base kernel once, in full mode, on the
\* transformed first batch and None, never in diagonal-only mode, and
\* returns the square matrix of the transformed rows.
C7_absent_batch_uses_full_mode ==
    (pc = "returned" /\ result.fn = "K" /\ result.b = None) =>
        LET ta == cnn_rows(model.kernel.cnn, result.a.rows)
        IN  /\ CallsTo(result.calls, "base_kernel.K_diag") = <<>>
            /\ CallsTo(result.calls, "base_kernel.K") = <<baseK_call(Tensor(1, ta), None)>>
            /\ ArgsOf(CallsTo(result.calls, "cnn")) = <<result.a>>
            /\ Len(result.value) = Len(ta)
            /\ \A r \in 1..Len(ta) :
                  /\ Len(result.value[r]) = Len(ta)
                  /\ \A c \in 1..Len(ta) :
                        result.value[r][c] =
                            BaseEntry(model.kernel.base_kernel, ta[r], ta[c])

C7_witness ==
    /\ pc = "returned" /\ result.fn = "K" /\ result.b = None
    /\ Len(result.a.rows) = 2
    /\ Len(result.value) = 2 /\ Len(result.value[1]) = 2
    /\ result.value[1][2] # result.value[1][1]

\* C8: evaluating K, K_diag, Kuu or Kuf leaves the trainable variables as
\* they are, and once the model is built the only step that changes a
\* trainable variable is an optimization step.
C8_only_optimizer_changes_variables ==
    [][ /\ (result'.fn \in EvalNames /\ result' # result) =>
                trainable_variables(model') = trainable_variables(model)
        /\ (pc # "start" /\ trainable_variables(model') # trainable_variables(model)) =>
                /\ pc = "training" /\ pc' = "training"
                /\ result'.fn = "optimization_step" /\ result'.ok
                /\ step' = step + 1 ]_vars

C8_witness ==
    /\ pc = "trained"
    /\ result.fn = "K_diag"
    /\ step = MaxIter
    /\ model.kernel.base_kernel.variance = MaxKernelParam
    /\ model.q_mu = 1

\* C9: with an iteration count of zero the loop makes no optimization step
\* and draws no batch, and the trainable variables keep the values the
\* construction gave them: no step after the construction changes them.
C9_zero_iterations_change_nothing ==
    [][ (iterations = 0 /\ pc # "start") =>
            /\ trainable_variables(model') = trainable_variables(model)
            /\ step' = 0
            /\ data_iterator'.drawn = 0
            /\ result'.fn # "optimization_step" ]_vars

C9_witness ==
    /\ iterations = 0
    /\ pc = "trained"
    /\ data_iterator = iter(total_num_data)
    /\ model.inducing_variable.Z.space = 1

\* C10: when no step raises, the loop makes exactly `iterations` optimization
\* steps, one batch drawn for each, and then ends: the loop can end when and
\* only when that many steps are made, whatever a step returned (the loss).
C10_exactly_n_steps ==
    /\ pc \in {"trained", "done"} => step = iterations /\ data_iterator.drawn = iterations
    /\ pc = "training" =>
          /\ step <= iterations
          /\ data_iterator.drawn = step
          /\ IF step < iterations THEN ~ENABLED FinishTraining ELSE ENABLED FinishTraining
    /\ pc = "failed" => step < iterations /\ ~result.ok

C10_witness ==
    /\ pc = "trained"
    /\ iterations = MaxIter
    /\ step = MaxIter
    /\ result.fn = "optimization_step" /\ result.ok

\* C11: every batch drawn from the dataset iterator has exactly batch_size
\* samples, all different, whatever the size of the dataset and however many
\* batches were drawn before: the batch an optimization step was handed, the
\* batches the subset is made of, and every batch the iterator can yield
\* next.  What a pass has delivered is a whole number of batches: the samples
\* left over at its end are in no batch.
C11_every_batch_is_full ==
    /\ (result.fn = "optimization_step") => Len(result.a.rows) = batch_size
    /\ (pc # "start") => Len(subset.images.rows) = subset_batches * batch_size
    /\ (pc \in {"training", "trained", "failed", "done"}) =>
          /\ data_iterator.remaining \subseteq 1..total_num_data
          /\ (total_num_data - Cardinality(data_iterator.remaining)) % batch_size = 0
          /\ \A d \in NextBatch(data_iterator, total_num_data) :
                /\ Len(d.batch) = batch_size
                /\ Cardinality(Range(d.batch)) = batch_size
                /\ d.it.drawn = data_iterator.drawn + 1

C11_witness ==
    /\ pc = "training"
    /\ total_num_data % batch_size # 0
    /\ data_iterator.drawn = 2
    /\ Cardinality(data_iterator.remaining) < batch_size
    /\ result.fn = "optimization_step" /\ result.ok
    /\ Len(result.a.rows) = batch_size

\* C12: the batch sequence never ends: the dataset has at least batch_size
\* samples, and after any number of draws the iterator yields a next batch
\* and is never exhausted; when a pass has no full batch left, the next draw
\* comes from a new pass over all the samples.
C12_iterator_never_exhausted ==
    (pc \in {"training", "trained", "failed", "done"}) =>
        /\ total_num_data >= batch_size
        /\ NextBatch(data_iterator, total_num_data) # {}
        /\ (Cardinality(data_iterator.remaining) < batch_size) =>
              \A d \in NextBatch(data_iterator, total_num_data) :
                  d.it.remaining = (1..total_num_data) \ Range(d.batch)

C12_witness ==
    /\ pc = "training"
    /\ result.fn = "optimization_step" /\ result.ok
    /\ data_iterator.drawn * batch_size > total_num_data
    /\ step = data_iterator.drawn

\* C13: an optimization step that fails is neither caught nor retried: the
\* failing step leaves the loop at once with the model and the loop index as
\* they were, no step of the notebook follows a failure, and the loop ends
\* normally only after a step that returned (or after no step at all), with
\* all its steps made.
C13_failure_leaves_the_loop ==
    [][ /\ (pc = "training" /\ ~result'.ok) =>
              /\ pc' = "failed"
              /\ result'.fn = "optimization_step"
              /\ step' = step /\ model' = model
        /\ pc # "failed"
        /\ (pc' \in {"trained", "done"}) => (result.ok /\ step' = iterations) ]_vars

C13_witness ==
    /\ pc = "failed"
    /\ ~result.ok /\ result.fn = "optimization_step"
    /\ step = 1 /\ step < iterations
    /\ data_iterator.drawn = 2

\* C17: with a transform that is the identity on every raw batch and a
\* linear base kernel of unit variance, K of a 2-point batch x1, x2 (second
\* batch absent, or the same batch again) returns exactly the Gram matrix
\* [[x1.x1, x1.x2], [x2.x1, x2.x2]].
C17_identity_linear_gram ==
    (/\ pc = "returned" /\ result.fn = "K"
     /\ result.b \in {None, result.a}
     /\ Len(result.a.rows) = 2
     /\ \A x \in RawBatches : cnn(model.kernel.cnn, x).rows = x.rows
     /\ model.kernel.base_kernel.class = "Linear"
     /\ model.kernel.base_kernel.variance = 1) =>
        LET x1 == result.a.rows[1]
            x2 == result.a.rows[2]
            dot(x, y) == x[1] * y[1] + x[2] * y[2]
        IN  /\ result.ok
            /\ result.value = <<<<dot(x1, x1), dot(x1, x2)>>,
                                <<dot(x2, x1), dot(x2, x2)>>>>

C17_witness ==
    /\ pc = "returned" /\ result.fn = "K" /\ result.b = None
    /\ \A x \in RawBatches : cnn(model.kernel.cnn, x).rows = x.rows
    /\ model.kernel.base_kernel = [class |-> "Linear", variance |-> 1, lengthscales |-> 1]
    /\ result.a.rows = <<<<0, 1>>, <<1, 1>>>>
    /\ result.value = <<<<1, 1>>, <<1, 2>>>>

\* C18: the classification model is constructed exactly once, before the
\* first optimization step, and never again: after the construction cell no
\* step constructs a model, the only steps that change the model are
\* optimization steps, each of which is the optimizer's update of the model
\* the step found, and every optimization step and the final prediction are
\* computed on the model as the step found it.
C18_model_constructed_once ==
    [][ /\ (pc = "start") => (model = NoModel /\ step = 0 /\ result'.fn = "construct")
        /\ (pc # "start") =>
              /\ pc' # "start"
              /\ result'.fn # "construct"
              /\ (model' # model) =>
                    /\ pc = "training" /\ result'.fn = "optimization_step" /\ result'.ok
                    /\ \E g \in Gradients : model' = Adam_apply(model, TrainableNames, g)
              /\ (data_iterator'.drawn = data_iterator.drawn + 1) =>
                    /\ result'.fn = "optimization_step"
                    /\ result'.value = SVGP_conditional(model, result'.a).value
              /\ (result'.fn = "predict_y") =>
                    /\ model' = model
                    /\ result'.value = SVGP_predict_y(model, subset.images).value ]_vars

C18_witness ==
    /\ pc = "done"
    /\ result.fn = "predict_y"
    /\ step = iterations /\ step >= 2
    /\ model.q_mu = 1
    /\ model.kernel.base_kernel.variance > 1

\* C20 as stated: the inducing points are initialised by clustering samples
\* that have been through the transform: the transform is applied to the
\* samples of the subset first and kmeans2 is run on the transformed samples.
C20_as_stated ==
    (result.fn = "construct") =>
        LET calls == result.calls
        IN  /\ Len(CallsTo(calls, "kmeans2")) = 1
            /\ CallsTo(calls, "kmeans2")[1].args[1].space = 1
            /\ calls[1] = cnn_call(subset.images)

\* C20, amended: the inducing points are initialised exactly once, in the
\* construction cell and before any optimization step, by clustering the raw
\* samples of the subset and then applying the transform to the centroids:
\* kmeans2 is called once, on the raw images, the network is called once, on
\* the centroids kmeans2 returned, and Z is the network's output on them.
C20_centroids_of_raw_then_transform ==
    /\ (pc = "start") => model.inducing_variable.Z = None
    /\ (pc # "start") =>
          /\ model.inducing_variable.Z.space = 1
          /\ Len(model.inducing_variable.Z.rows) = num_inducing_points
    /\ (result.fn = "construct") =>
          /\ pc = "constructed" /\ step = 0
          /\ result.a.space = 0
          /\ Len(result.a.rows) = num_inducing_points
          /\ Range(result.a.rows) \subseteq Range(subset.images.rows)
          /\ result.calls = <<kmeans2_call(subset.images), cnn_call(result.a)>>
          /\ subset.images.space = 0
          /\ model.inducing_variable.Z = cnn(model.kernel.cnn, result.a)
          /\ result.value = model.inducing_variable.Z

C20_witness ==
    /\ pc = "constructed"
    /\ result.fn = "construct"
    /\ model.kernel.cnn.w = 2
    /\ result.a.rows = <<<<0, 1>>, <<1, 0>>>>
    /\ model.inducing_variable.Z.rows = <<<<0, 2>>, <<2, 0>>>>

\* C14: the latent-variable notebook calls opt.minimize exactly once, on the
\* objective of the whole data set Y; the call makes at most maxiter
\* iterations, at the cap it can only return, and nothing calls it again.
C14_one_capped_full_dataset_call ==
    /\ nb.opt.calls <= 1
    /\ nb.cell \in {"data", "pca", "inducing", "constructed", "assigned"}
          => nb.opt.calls = 0
    /\ nb.cell \in {"optimizing", "optimized", "failed", "plotted"}
          => /\ nb.opt.calls = 1
             /\ nb.opt.data = nb.Y
             /\ nb.opt.nit <= nb.opt.maxiter
    /\ (nb.cell = "optimizing" /\ nb.opt.nit = nb.opt.maxiter)
          => (~ENABLED ScipyIterate /\ ENABLED ScipyReturn)
    /\ nb.cell \in {"optimized", "plotted"} => ~ENABLED MinimizeCell

\* The call has returned after using all of a cap of more than one iteration.
C14_witness ==
    /\ nb.opt.status = "returned"
    /\ nb.opt.maxiter > 1
    /\ nb.opt.nit = nb.opt.maxiter
    /\ nb.opt.calls = 1

\* C15: once the latent-variable notebook has called opt.minimize, the solver
\* it selected is L-BFGS-B.
C15_as_stated ==
    nb.opt.calls > 0 => nb.opt.solver = "L-BFGS-B"

\* C15, as the code has it: the call passes method="bfgs", and the solver
\* selected is BFGS.
C15_call_selects_bfgs ==
    nb.opt.calls > 0 => nb.opt.solver = "BFGS"

\* The call has been made and the solver is running.
C15_witness ==
    nb.opt.calls = 1 /\ nb.opt.status = "running"

\* What a run of the latent-variable notebook has fitted: everything the cells
\* up to the end of the optimization produce.
Fitted(n) ==
    [cell |-> n.cell, Y |-> n.Y, X_mean_init |-> n.X_mean_init,
     X_var_init |-> n.X_var_init, inducing_variable |-> n.inducing_variable,
     gplvm |-> n.gplvm, opt |-> n.opt, log |-> n.log]

\* C16: the labels do not influence the fitting.  The notebook and its twin
\* run on the same Y with the same random choices; the twin has every label
\* 0.  In every state, up to and after the end of the optimization, the two
\* have fitted the same thing, and so do any two runs with different labels,
\* each being equal to the twin.  Only what the plotting cell produces from
\* the labels (the groups of points) can differ, and the positions it plots
\* do not.
C16_labels_do_not_influence_fitting ==
    /\ Fitted(nb) = Fitted(twin)
    /\ nb.plot.X_pca = twin.plot.X_pca
    /\ nb.plot.gplvm_X_mean = twin.plot.gplvm_X_mean
    /\ nb.cell # "plotted" => nb.plot = NoPlot

\* The two runs have different labels, the optimization has moved the
\* parameters and has returned, and the plots group the points differently.
C16_witness ==
    /\ nb.labels # twin.labels
    /\ nb.cell = "plotted"
    /\ nb.opt.nit > 0
    /\ nb.gplvm.X_data_mean # nb.X_mean_init
    /\ nb.plot.groups # twin.plot.groups

\* The steps of the latent-variable notebook, in the order of its cells.
GPLVM_steps == <<"pca", "construct", "minimize", "return", "plot">>

\* C19: the steps of the latent-variable notebook happen in the order PCA
\* initialisation, construction of the model from the initial means and
\* variances, optimization, read-out of the latent means for plotting; the
\* latent means are read out only after opt.minimize has returned, and what is
\* read out is what the optimizer left.
C19_steps_in_order ==
    /\ Len(nb.log) <= Len(GPLVM_steps)
    /\ nb.log = SubSeq(GPLVM_steps, 1, Len(nb.log))
    /\ nb.cell = "constructed"
          => /\ nb.gplvm.X_data_mean = nb.X_mean_init
             /\ nb.gplvm.X_data_var = nb.X_var_init
    /\ nb.plot # NoPlot
          => /\ nb.opt.status = "returned"
             /\ nb.plot.gplvm_X_mean = nb.gplvm.X_data_mean
    /\ nb.opt.status # "returned" => ~ENABLED PlotCell

\* All the steps have run, and the means plotted are not the initial ones.
C19_witness ==
    /\ nb.log = GPLVM_steps
    /\ nb.plot.gplvm_X_mean # nb.X_mean_init
    /\ nb.plot.X_pca = nb.X_mean_init

\* C21: the two notebooks share no state that either changes for the other.
\* In any interleaving of their cells, a step changes the variables of one
\* notebook only: a step that changes the latent-variable notebook's names
\* or the library's configuration leaves the classification notebook's model
\* and every other name of it alone, and a step that changes the
\* classification notebook leaves the latent-variable model alone.  The only
\* process-wide state written is gpflow.config, by the latent-variable
\* notebook's first cell, and the settings the classification notebook reads
\* (the default float and the default jitter) keep their values.
C21_no_shared_mutable_state ==
    [][/\ (UNCHANGED classification_vars \/ UNCHANGED <<nb, twin, config>>)
       /\ model' # model => UNCHANGED <<nb, twin, config>>
       /\ nb'.gplvm # nb.gplvm => UNCHANGED classification_vars
       /\ config'.float = config.float
       /\ config'.jitter = config.jitter]_vars

\* Both notebooks are in the middle of their optimizations, each has moved
\* its own parameters, and the configuration has been written.
C21_witness ==
    /\ pc = "training"
    /\ step > 0
    /\ nb.opt.status = "running"
    /\ nb.opt.nit > 0
    /\ nb.gplvm.X_data_mean # nb.X_mean_init
    /\ config.summary_fmt = "notebook"

\* The implementation the dispatcher is to resolve fn to for inducing points
\* of class i and a kernel of class k.
ExpectedImpl(fn, i, k) ==
    IF i = "KernelSpaceInducingPoints" /\ k = "KernelWithConvNN"
    THEN fn
    ELSE fn \o "_kernel_inducingpoints"

\* C22: Kuu and Kuf resolve to the notebook's implementations for the pair
\* (KernelSpaceInducingPoints, KernelWithConvNN) only; for every other pair
\* of an inducing-variable class and a kernel class, plain InducingPoints
\* with a KernelWithConvNN and KernelSpaceInducingPoints with another kernel
\* among them, they resolve to the library's base case, and an evaluation
\* runs the implementation resolved.
C22_override_only_for_the_pair ==
    /\ \A fn \in {"Kuu", "Kuf"}, i \in InducingVariableClasses, k \in KernelClasses :
          dispatch(fn, <<i, k>>) = ExpectedImpl(fn, i, k)
    /\ (pc = "returned" /\ result.fn \in {"Kuu", "Kuf"}) =>
          /\ Len(result.calls) > 0
          /\ result.calls[1] =
                Resolved("covariances." \o result.fn,
                         ExpectedImpl(result.fn, model.inducing_variable.class,
                                      model.kernel.class))

\* Kuf has been evaluated for plain inducing points and a composite kernel,
\* and the base case ran: the network was applied to the inducing points.
C22_witness ==
    /\ pc = "returned" /\ result.fn = "Kuf"
    /\ model.inducing_variable.class = "InducingPoints"
    /\ model.kernel.class = "KernelWithConvNN"
    /\ result.calls[1].impl = "Kuf_kernel_inducingpoints"
    /\ \E k \in 1..Len(result.calls) :
          result.calls[k] = cnn_call(model.inducing_variable.Z)

\* The trainable parameters the model is to have: the inducing points, the
\* network's weights, the base kernel's parameters, the variational ones.
AllTrainable == {"Z", "cnn", "variance", "lengthscales", "q_mu", "q_sqrt"}

\* C23: model.trainable_variables holds the inducing points, the network's
\* weights, the base kernel's variance and lengthscales, and q_mu and
\* q_sqrt, and every optimization step that returns has applied one Adam
\* update to all of them: the model after the step is the model before it
\* with every trainable parameter moved along its gradient, none left out.
C23_step_updates_all_trainables ==
    [][/\ DOMAIN trainable_variables(model) = AllTrainable
       /\ (pc = "training" /\ step' = step + 1) =>
             \E g \in Gradients :
                 \A name \in AllTrainable :
                     trainable_variables(model')[name] =
                         trainable_variables(Adam_apply(model, {name}, g))[name]]_vars

\* A step has returned after which every parameter with a known starting
\* value holds another one, and the network's weights are not zero.
C23_witness ==
    /\ pc = "training"
    /\ step = 1
    /\ result.fn = "optimization_step" /\ result.ok
    /\ model.q_mu = 1 /\ model.q_sqrt = 2
    /\ model.kernel.base_kernel.variance = 2
    /\ model.kernel.base_kernel.lengthscales = 2
    /\ model.kernel.cnn.w > 0

\* The samples of the subset whose predicted class, the arg-max of the mean
\* m, is their label.
CorrectOf(m) ==
    {r \in 1..Len(subset.labels) : m[r] % num_mnist_classes = subset.labels[r]}

\* C24: the accuracy is computed once, by the last cell, after the loop has
\* made all its passes: there is no accuracy before the notebook is done,
\* the notebook is done only with step = iterations, and nothing runs after.
\* The accuracy is 100 times the fraction of the subset's samples predicted
\* right, a number from 0 to 100.
C24_accuracy_once_after_training ==
    /\ pc # "done" => acc = NoAcc
    /\ pc = "done" =>
          /\ step = iterations
          /\ result.fn = "predict_y"
          /\ result.a = subset.images
          /\ Len(result.value) = Len(subset.labels)
          /\ acc * Len(subset.labels) = 100 * Cardinality(CorrectOf(result.value))
          /\ acc \in 0..100
          /\ ~ENABLED Predict
    /\ pc \in {"start", "constructed", "training", "failed"} => ~ENABLED Predict

\* The notebook is done after at least one step, with half of the subset
\* predicted right.
C24_witness ==
    /\ pc = "done"
    /\ iterations > 0 /\ step = iterations
    /\ acc = 50

DistinctIndices(n, k) ==
    {h \in [1..k -> 1..n] : \A a, b \in 1..k : a # b => h[a] # h[b]}

\* C26: with num_inducing no more than the number of data points, the
\* inducing inputs the cell picks, and the ones the model is constructed
\* with, are exactly num_inducing rows of the PCA-initialised latent means,
\* taken at pairwise distinct row indices; whatever the number of data
\* points, every inducing input is a row of the initial latent means.
C26_inducing_inputs_are_distinct_rows ==
    nb.cell \in {"inducing", "constructed"} =>
        /\ \A j \in 1..Len(nb.inducing_variable) :
              \E i \in 1..Len(nb.X_mean_init) : nb.inducing_variable[j] = nb.X_mean_init[i]
        /\ num_inducing <= Len(nb.Y) =>
              /\ Len(nb.inducing_variable) = num_inducing
              /\ \E h \in DistinctIndices(Len(nb.X_mean_init), num_inducing) :
                    \A j \in 1..num_inducing :
                        nb.inducing_variable[j] = nb.X_mean_init[h[j]]
        /\ nb.cell = "constructed" => nb.gplvm.inducing_variable = nb.inducing_variable

\* The model is constructed with inducing inputs picked from more rows than
\* num_inducing, one of which occurs once only and is picked.
C26_witness ==
    /\ nb.cell = "constructed"
    /\ Len(nb.X_mean_init) > num_inducing
    /\ Len(nb.gplvm.inducing_variable) = num_inducing
    /\ \E j \in 1..num_inducing :
          Cardinality({i \in 1..Len(nb.X_mean_init) :
                          nb.X_mean_init[i] = nb.gplvm.inducing_variable[j]}) = 1

\* C27: every optimization step draws exactly one batch from data_iterator
\* and evaluates the loss on that batch.  After k completed steps k batches
\* have been drawn (one more when the step under way has raised); the step's
\* batch is the one next(data_iterator) delivers from where the step before
\* left the iterator, so no batch is skipped or used twice; and no other
\* step draws from data_iterator.
C27_one_batch_per_step ==
    [][/\ pc' \in {"training", "trained", "done"} => data_iterator'.drawn = step'
       /\ pc' = "failed" => data_iterator'.drawn = step' + 1
       /\ (pc = "training" /\ pc' \in {"training", "failed"}) =>
             /\ data_iterator'.drawn = data_iterator.drawn + 1
             /\ \E d \in NextBatch(data_iterator, total_num_data) :
                   /\ data_iterator' = d.it
                   /\ result'.fn = "optimization_step"
                   /\ result'.a = Images(d.batch)
                   /\ result'.value = loss_cb(model, d.batch).value
       /\ (pc \in {"training", "trained", "done", "failed"}
              /\ ~(pc = "training" /\ pc' \in {"training", "failed"})) =>
             data_iterator' = data_iterator]_vars

\* Two steps have completed and two batches have been drawn, the second one
\* in a pass of its own.
C27_witness ==
    /\ pc = "training"
    /\ step = 2
    /\ data_iterator.drawn = 2
    /\ result.fn = "optimization_step" /\ result.ok
    /\ Cardinality(data_iterator.remaining) = total_num_data - batch_size

\* C28: the iterators over the dataset are independent, and each starts a
\* pass of its own.  Drawing the subset through iter(dataset.batch(32))
\* leaves data_iterator as it is; data_iterator, made afterwards, has drawn
\* nothing and has the whole dataset before it, whatever the subset's
\* iterator drew; and its first batch is cut from the whole dataset, samples
\* of the subset included.
C28_iterators_are_independent ==
    [][/\ pc = "start" => data_iterator' = data_iterator
       /\ (pc = "constructed" /\ pc' = "training") =>
             /\ subset.images # None
             /\ data_iterator' = [remaining |-> 1..total_num_data, drawn |-> 0]
       /\ (pc = "training" /\ step = 0 /\ data_iterator' # data_iterator) =>
             \E b \in Batches(1..total_num_data) :
                /\ result'.a = Images(b)
                /\ data_iterator'.remaining = (1..total_num_data) \ Range(b)]_vars

\* The first batch data_iterator delivered is made of the very samples the
\* subset was made of, in a dataset that has other samples too.
C28_witness ==
    /\ pc = "training"
    /\ step = 1
    /\ data_iterator.drawn = 1
    /\ total_num_data > batch_size
    /\ result.fn = "optimization_step"
    /\ result.a = subset.images

\* C29: a pass over a dataset of N samples delivers exactly N \div batch_size
\* batches.  A batch is batch_size distinct samples of its own pass that no
\* earlier batch of the pass has delivered; when the last batch of a pass is
\* drawn, N % batch_size samples of the pass are left, and they are in no
\* batch: the batch after it is cut from the whole of the next pass.
C29_batches_of_one_pass ==
    [][data_iterator'.drawn = data_iterator.drawn + 1 =>
          LET N == total_num_data
              per_pass == N \div batch_size
              pool == IF data_iterator.drawn % per_pass = 0
                      THEN 1..N
                      ELSE data_iterator.remaining
              batch == result'.value
          IN  /\ Len(batch) = batch_size
              /\ Cardinality(Range(batch)) = batch_size
              /\ Range(batch) \subseteq pool
              /\ data_iterator'.remaining = pool \ Range(batch)
              /\ result'.a = Images(batch)
              /\ data_iterator'.drawn % per_pass = 0 =>
                    Cardinality(data_iterator'.remaining) = N % batch_size
              /\ data_iterator'.drawn % per_pass # 0 =>
                    Cardinality(data_iterator'.remaining) >= batch_size]_vars

\* A first pass has delivered its two batches and left one sample out; the
\* second pass has begun, and its first batch, cut from all the samples,
\* holds sample 1.
C29_witness ==
    /\ pc = "dataset"
    /\ total_num_data = 2 * batch_size + 1
    /\ data_iterator.drawn = 3
    /\ Cardinality(data_iterator.remaining) = total_num_data - batch_size
    /\ result.value[1] = 1

\* The transpose of a matrix with at least one row.
Transpose(M) == [c \in 1..Len(M[1]) |-> [r \in 1..Len(M) |-> M[r][c]]]

\* C30: the composite kernel is as symmetric as its base kernel.  For raw
\* batches A and B, when the base kernel's covariance of the transformed
\* batches is the transpose of its covariance of them the other way round,
\* K(A, B) is the transpose of K(B, A).
C30_K_preserves_symmetry ==
    (pc = "returned" /\ result.fn = "K" /\ result.b # None) =>
        LET bk == model.kernel.base_kernel
            tA == cnn(model.kernel.cnn, result.a)
            tB == cnn(model.kernel.cnn, result.b)
        IN  BaseKernel_K(bk, tA, tB) = Transpose(BaseKernel_K(bk, tB, tA)) =>
                result.value =
                    Transpose(KernelWithConvNN_K(model.kernel, result.b, result.a).value)

\* K has been evaluated on two batches of different sizes, through a network
\* that does not map everything to zero, and its entries are not all equal.
C30_witness ==
    /\ pc = "returned" /\ result.fn = "K" /\ result.b # None
    /\ Len(result.a.rows) # Len(result.b.rows)
    /\ model.kernel.cnn.w > 0
    /\ \E r \in 1..Len(result.value), c \in 1..Len(result.value[1]) :
          result.value[r][c] # result.value[1][1]
    /\ LET bk == model.kernel.base_kernel
           tA == cnn(model.kernel.cnn, result.a)
           tB == cnn(model.kernel.cnn, result.b)
       IN  BaseKernel_K(bk, tA, tB) = Transpose(BaseKernel_K(bk, tB, tA))

=============================================================================
